---- MODULE Spec2Model ----
(***************************************************************************)
(* The Conan recipe of fossil_media (conanfile.py): the class attributes,  *)
(* the lifecycle hooks layout / generate / build / source / package /      *)
(* package_info, and the host that invokes them.                           *)
(*                                                                         *)
(* Text (a version, a url, a shell command) is a sequence of one-character *)
(* strings, so that formatting a command and splitting it into words are   *)
(* computed.  A file-system path is a sequence of components; a file is a  *)
(* record [dir, stem, ext].                                                *)
(***************************************************************************)
EXTENDS Integers, Sequences, FiniteSets, TLC

VARIABLES
    name,         \* PackageDescriptor.name (class attribute)
    version,      \* PackageDescriptor.version, as text
    url,          \* PackageDescriptor.url, as text
    optArg,       \* what the user passed for -o shared=..., or "unset"
    shared,       \* the resolved option, "True" | "False" ("unresolved" before)
    base,         \* the directory the recipe is invoked from
    srcTree,      \* the files of the exported source tree
    folders,      \* self.folders: [source, build], relative paths
    toolchain,    \* default_library in the generated Meson toolchain file
    artifacts,    \* the compiled artifacts in the build folder
    installPlan,  \* the headers the build's install step installs
    pkg,          \* the files under self.package_folder
    commands,     \* the commands issued through self.run, in order
    tools,        \* the external processes run, in order: [tool, ok]
    trace,        \* the hooks the host has invoked, in order
    failedAt,     \* the index in trace of the hook that raised, 0 if none
    cpp_info,     \* self.cpp_info: [libs, includedirs]
    fetched,      \* whether the host has run the source hook
    pc            \* the next main step of the host

vars == <<name, version, url, optArg, shared, base, srcTree, folders, toolchain,
          artifacts, installPlan, pkg, commands, tools, trace, failedAt,
          cpp_info, fetched, pc>>

---------------------------------------------------------------------------
(* Bounds *)

MaxVerLen == 1

MaxDirDepth == 1

---------------------------------------------------------------------------
(* Class attributes *)

DeclaredName == "fossil_media"

DeclaredVersion == <<"0",".","1",".","1">>

DeclaredUrl ==
    <<"h","t","t","p","s",":","/","/","g","i","t","h","u","b",".","c","o",
      "m","/","f","o","s","s","i","l","l","o","g","i","c","/","f","o","s",
      "s","i","l","-","m","e","d","i","a">>

\* options = {"shared": [True, False]}
options == [shared |-> {"True", "False"}]

\* A default turned round.
default_options_shared == [shared |-> "True"]

\* default_options = {"shared": False}
default_options == [shared |-> "False"]

---------------------------------------------------------------------------
(* The descriptors and inputs the recipe is run with *)

VerChars == {"1", "2"}

RECURSIVE TextsOfLen(_)
TextsOfLen(n) ==
    IF n = 0 THEN {<<>>}
    ELSE {Append(t, c) : t \in TextsOfLen(n - 1), c \in VerChars}

Versions == {DeclaredVersion} \cup UNION {TextsOfLen(n) : n \in 1..MaxVerLen}

Names == {DeclaredName, "other_media"}

Urls == {DeclaredUrl, <<"h","t","t","p","s",":","/","/","e",".","o","r","g","/","m">>}

OptArgs == {"unset", "True", "False", "maybe"}

Bases == {<<"home", "dev", "fossil-media">>, <<"tmp">>}

---------------------------------------------------------------------------
(* The class body: which definition of a hook is in effect *)

\* The def statements of the class body, in the order the body executes them.
ClassBody ==
    << [hook |-> "layout",       line |-> 22],
       [hook |-> "generate",     line |-> 27],
       [hook |-> "build",        line |-> 32],
       [hook |-> "source",       line |-> 38],
       [hook |-> "package",      line |-> 41],
       [hook |-> "package_info", line |-> 51],
       [hook |-> "source",       line |-> 56] >>

Hooks == {ClassBody[i].hook : i \in 1..Len(ClassBody)}

\* A mis-reading of def: the first binding of a name is kept.
BindFirst(ns, d) ==
    IF ns[d.hook] = 0 THEN [ns EXCEPT ![d.hook] = d.line] ELSE ns

\* A def statement binds its name in the class namespace, replacing any
\* earlier binding of that name.
Bind(ns, d) == [ns EXCEPT ![d.hook] = d.line]

RECURSIVE Execute(_, _)
Execute(body, ns) ==
    IF body = <<>> THEN ns ELSE Execute(Tail(body), Bind(ns, Head(body)))

\* The namespace of the finished class: hook |-> line of the def in effect.
ClassNamespace == Execute(ClassBody, [h \in Hooks |-> 0])

Definitions(h) == {i \in 1..Len(ClassBody) : ClassBody[i].hook = h}

---------------------------------------------------------------------------
(* The two definitions of source, and the command each formats *)

Space == <<" ">>

GitCloneBranchV ==
    <<"g","i","t"," ","c","l","o","n","e"," ","-","-","b","r","a","n","c",
      "h"," ","v">>

Depth1 == <<" ","-","-","d","e","p","t","h"," ","1"," ">>

\* line 39: f"git clone --branch v{self.version} --depth 1 {self.url}"
source_L38(ver, u) == GitCloneBranchV \o ver \o Depth1 \o u

\* A slip in the tag: the "v" prefix left out.
source_L56_NoV(ver, u) == SubSeq(GitCloneBranchV, 1, 19) \o ver \o Space \o u

\* line 57: f"git clone --branch v{self.version} {self.url}"
source_L56(ver, u) == GitCloneBranchV \o ver \o Space \o u

\* The command of the source definition at `line`.
SourceCommand(line, ver, u) ==
    IF line = 38 THEN source_L38(ver, u) ELSE source_L56(ver, u)

---------------------------------------------------------------------------
(* self.run hands the command to the shell, which splits it into words;   *)
(* git clone reads its options from the words.                            *)

\* The position of the first space of `text` at or after i, Len(text) + 1
\* when there is none.
NextSpace(text, i) ==
    LET at == {j \in i..Len(text) : text[j] = " "} \cup {Len(text) + 1}
    IN  CHOOSE j \in at : \A k \in at : j <= k

RECURSIVE Words(_, _)
\* The words of `text` from position i on: the shell splits at spaces, and a
\* run of spaces separates once.
Words(text, i) ==
    IF i > Len(text) THEN <<>>
    ELSE LET j == NextSpace(text, i)
         IN  IF j = i THEN Words(text, i + 1)
             ELSE <<SubSeq(text, i, j - 1)>> \o Words(text, j + 1)

ShellWords(text) == Words(text, 1)

BranchOpt == <<"-","-","b","r","a","n","c","h">>

DepthOpt == <<"-","-","d","e","p","t","h">>

NoClone == [branch |-> <<>>, depth |-> <<>>, repos |-> <<>>]

RECURSIVE CloneArgs(_, _)
CloneArgs(ws, acc) ==
    IF ws = <<>> THEN acc
    ELSE IF Head(ws) = BranchOpt /\ Len(ws) >= 2
         THEN CloneArgs(Tail(Tail(ws)), [acc EXCEPT !.branch = ws[2]])
    ELSE IF Head(ws) = DepthOpt /\ Len(ws) >= 2
         THEN CloneArgs(Tail(Tail(ws)), [acc EXCEPT !.depth = ws[2]])
    ELSE CloneArgs(Tail(ws), [acc EXCEPT !.repos = Append(@, Head(ws))])

IsGitClone(ws) ==
    /\ Len(ws) >= 2
    /\ ws[1] = <<"g","i","t">>
    /\ ws[2] = <<"c","l","o","n","e">>

\* What a git clone command asks for: the branch or tag, the depth limit
\* (<<>>: full history) and the repositories named.
GitClone(cmd) ==
    LET ws == ShellWords(cmd)
    IN  IF IsGitClone(ws) THEN CloneArgs(SubSeq(ws, 3, Len(ws)), NoClone)
        ELSE NoClone

---------------------------------------------------------------------------
(* Paths and the folders of a run *)

\* os.path.normpath on a path of components: "." names no directory.
Normpath(p) == SelectSeq(p, LAMBDA c : c # ".")

\* A folder of self.folders is relative to the directory of the run.
Resolve(b, rel) == Normpath(b \o rel)

source_folder == Resolve(base, folders.source)

build_folder == Resolve(base, folders.build)

\* A slip in the build folder's name.
layout_folders_build == [source |-> <<".">>, build |-> <<"build">>]

\* lines 24-25: self.folders.source = "."; self.folders.build = "builddir"
layout_folders == [source |-> <<".">>, build |-> <<"builddir">>]

---------------------------------------------------------------------------
(* Files, and conan.tools.files.copy *)

\* src="code/logic/fossil/media"
SrcSub == <<"code", "logic", "fossil", "media">>

\* dst=os.path.join(self.package_folder, "include", "fossil", "media"),
\* relative to the package folder
DstSub == <<"include", "fossil", "media">>

File(dir, stem, ext) == [dir |-> dir, stem |-> stem, ext |-> ext]

RECURSIVE SubDir(_)
SubDir(d) == IF d = 0 THEN <<>> ELSE <<"sub">> \o SubDir(d - 1)

\* The headers an exported source tree may hold under SrcSub, at every depth.
HeaderUniverse ==
    {File(SrcSub \o SubDir(d), "media", "h") : d \in 0..MaxDirDepth}

\* What every tree holds besides: a file under SrcSub that is no header, and
\* a header outside SrcSub.
OtherFiles ==
    {File(SrcSub, "notes", "txt"),
     File(<<"code", "logic", "fossil">>, "media", "h")}

SourceTrees == {OtherFiles \cup hs : hs \in SUBSET HeaderUniverse}

IsPrefix(p, q) == Len(p) <= Len(q) /\ SubSeq(q, 1, Len(p)) = p

\* A copy that does not descend into the sub-folders of src.
copy_flat(tree, ext, src, dst) ==
    {File(dst, f.stem, f.ext) : f \in {g \in tree : g.dir = src /\ g.ext = ext}}

\* copy(self, "*.<ext>", src, dst): every file under src, at any depth, whose
\* name matches the pattern, copied to the same relative path under dst.
copy(tree, ext, src, dst) ==
    {File(dst \o SubSeq(f.dir, Len(src) + 1, Len(f.dir)), f.stem, f.ext) :
        f \in {g \in tree : IsPrefix(src, g.dir) /\ g.ext = ext}}

\* The headers package() copies, as paths in the package folder.
Headers(tree) == copy(tree, "h", SrcSub, DstSub)

---------------------------------------------------------------------------
(* The toolchain and the Meson project *)

\* MesonToolchain(self) writes default_library from the shared option.
MesonToolchain(sharedOpt) == IF sharedOpt = "True" THEN "shared" ELSE "static"

\* The library the Meson project builds under a default_library setting.
LibArtifact(defaultLibrary) ==
    File(<<"lib">>, "libfossil_media",
         IF defaultLibrary = "shared" THEN "so" ELSE "a")

\* meson install: the compiled libraries and the headers of its install plan.
MesonInstall(arts, plan) == arts \cup plan

ToolRun(tool, ok) == [tool |-> tool, ok |-> ok]

\* build() that goes on to meson.build() after a failed meson.configure().
build_continue(setupOk, compileOk) ==
    [ran    |-> <<ToolRun("meson setup", setupOk),
                  ToolRun("meson compile", compileOk)>>,
     raised |-> ~(setupOk /\ compileOk)]

\* build() that catches the failure of the build tool.
build_swallow(setupOk, compileOk) ==
    [ran    |-> IF setupOk
                THEN <<ToolRun("meson setup", TRUE),
                       ToolRun("meson compile", compileOk)>>
                ELSE <<ToolRun("meson setup", FALSE)>>,
     raised |-> FALSE]

\* lines 34-36: meson.configure(); meson.build().  The processes run and
\* whether the hook raises: a failing call raises at once, nothing is caught.
build_steps(setupOk, compileOk) ==
    IF setupOk
    THEN [ran    |-> <<ToolRun("meson setup", TRUE),
                       ToolRun("meson compile", compileOk)>>,
          raised |-> ~compileOk]
    ELSE [ran |-> <<ToolRun("meson setup", FALSE)>>, raised |-> TRUE]

\* lines 43-49: the package folder after meson.install() and copy().
package_files(p, arts, plan, tree) ==
    (p \cup MesonInstall(arts, plan)) \cup Headers(tree)

\* A slip in the library name: the hyphen of the repository's name.
package_info_hyphen == [libs |-> <<"fossil-media">>, includedirs |-> <<"include">>]

\* lines 53-54
package_info_cpp == [libs |-> <<"fossil_media">>, includedirs |-> <<"include">>]

---------------------------------------------------------------------------
(* The run: the host resolves the options, then invokes the hooks.  The    *)
(* recipe fixes no order among its hooks; the host invokes layout,         *)
(* generate, build, package and package_info in that order, and source at  *)
(* most once, at any point after layout and before package.  A hook that   *)
(* raises ends the run.                                                    *)

Init ==
    /\ name \in Names
    /\ version \in Versions
    /\ url \in Urls
    /\ optArg \in OptArgs
    /\ base \in Bases
    /\ srcTree \in SourceTrees
    /\ shared = "unresolved"
    /\ folders = [source |-> <<>>, build |-> <<>>]
    /\ toolchain = "none"
    /\ artifacts = {}
    /\ installPlan = {}
    /\ pkg = {}
    /\ commands = <<>>
    /\ tools = <<>>
    /\ trace = <<>>
    /\ failedAt = 0
    /\ cpp_info = [libs |-> <<>>, includedirs |-> <<>>]
    /\ fetched = FALSE
    /\ pc = "options"

\* The hook just appended to trace returned (then the host goes on at `next`)
\* or raised (then the run is over).
Returns(next) == pc' = next /\ failedAt' = failedAt

Raises == pc' = "aborted" /\ failedAt' = Len(trace')

\* lines 16-17: a value outside options["shared"] is refused before any hook
\* runs; an option the user leaves unset takes its default.
ResolveOptions ==
    /\ pc = "options"
    /\ IF optArg = "unset"
       THEN shared' = default_options.shared /\ pc' = "layout"
       ELSE IF optArg \in options.shared
            THEN shared' = optArg /\ pc' = "layout"
            ELSE shared' = shared /\ pc' = "aborted"
    /\ UNCHANGED <<name, version, url, optArg, base, srcTree, folders,
                   toolchain, artifacts, installPlan, pkg, commands, tools,
                   trace, failedAt, cpp_info, fetched>>

\* lines 22-25
layout ==
    /\ pc = "layout"
    /\ trace' = Append(trace, "layout")
    /\ folders' = layout_folders
    /\ Returns("generate")
    /\ UNCHANGED <<name, version, url, optArg, shared, base, srcTree,
                   toolchain, artifacts, installPlan, pkg, commands, tools,
                   cpp_info, fetched>>

\* lines 27-30: tc = MesonToolchain(self); tc.generate() writes the toolchain
\* file, or raises when it cannot.
generate ==
    /\ pc = "generate"
    /\ trace' = Append(trace, "generate")
    /\ \E written \in BOOLEAN :
          IF written
          THEN toolchain' = MesonToolchain(shared) /\ Returns("build")
          ELSE toolchain' = toolchain /\ Raises
    /\ UNCHANGED <<name, version, url, optArg, shared, base, srcTree, folders,
                   artifacts, installPlan, pkg, commands, tools, cpp_info,
                   fetched>>

\* lines 32-36.  A build that succeeds leaves the library in the build folder
\* and fixes which headers the project's install step installs.
build ==
    /\ pc = "build"
    /\ trace' = Append(trace, "build")
    /\ \E setupOk, compileOk \in BOOLEAN, plan \in SUBSET Headers(srcTree) :
          LET r == build_steps(setupOk, compileOk)
          IN  /\ tools' = tools \o r.ran
              /\ IF \A i \in 1..Len(r.ran) : r.ran[i].ok
                 THEN artifacts' = {LibArtifact(toolchain)} /\ installPlan' = plan
                 ELSE artifacts' = artifacts /\ installPlan' = installPlan
              /\ IF r.raised THEN Raises ELSE Returns("package")
    /\ UNCHANGED <<name, version, url, optArg, shared, base, srcTree, folders,
                   toolchain, pkg, commands, cpp_info, fetched>>

\* The definition of source in effect (lines 56-57 or 38-39): self.run of the
\* clone command, which raises when git exits non-zero.
source ==
    /\ pc \in {"generate", "build", "package"}
    /\ ~fetched
    /\ fetched' = TRUE
    /\ trace' = Append(trace, "source")
    /\ commands' =
          Append(commands, SourceCommand(ClassNamespace["source"], version, url))
    /\ \E cloned \in BOOLEAN :
          /\ tools' = Append(tools, ToolRun("git clone", cloned))
          /\ IF cloned THEN Returns(pc) ELSE Raises
    /\ UNCHANGED <<name, version, url, optArg, shared, base, srcTree, folders,
                   toolchain, artifacts, installPlan, pkg, cpp_info>>

\* lines 41-49: meson.install(), then copy().  Either may fail part-way.
package ==
    /\ pc = "package"
    /\ trace' = Append(trace, "package")
    /\ LET installed == MesonInstall(artifacts, installPlan)
           headers   == Headers(srcTree)
       IN  \/ /\ tools' = Append(tools, ToolRun("meson install", TRUE))
              /\ pkg' = package_files(pkg, artifacts, installPlan, srcTree)
              /\ Returns("package_info")
           \/ /\ tools' = Append(tools, ToolRun("meson install", FALSE))
              /\ \E part \in SUBSET installed : pkg' = pkg \cup part
              /\ Raises
           \/ /\ tools' = Append(tools, ToolRun("meson install", TRUE))
              /\ \E part \in SUBSET headers : pkg' = (pkg \cup installed) \cup part
              /\ Raises
    /\ UNCHANGED <<name, version, url, optArg, shared, base, srcTree, folders,
                   toolchain, artifacts, installPlan, commands, cpp_info,
                   fetched>>

\* lines 51-54
package_info ==
    /\ pc = "package_info"
    /\ trace' = Append(trace, "package_info")
    /\ cpp_info' = package_info_cpp
    /\ Returns("done")
    /\ UNCHANGED <<name, version, url, optArg, shared, base, srcTree, folders,
                   toolchain, artifacts, installPlan, pkg, commands, tools,
                   fetched>>

Next ==
    \/ ResolveOptions
    \/ layout
    \/ generate
    \/ build
    \/ source
    \/ package
    \/ package_info

Spec == Init /\ [][Next]_vars

---------------------------------------------------------------------------
(* Properties *)

Invoked(h) == \E i \in 1..Len(trace) : trace[i] = h

Times(h) == Cardinality({i \in 1..Len(trace) : trace[i] = h})

\* package() has returned.
PackageSucceeded == pc \in {"package_info", "done"}

\* The place in the package folder of a header of the source tree.
HeaderDest(f) ==
    File(DstSub \o SubSeq(f.dir, Len(SrcSub) + 1, Len(f.dir)), f.stem, f.ext)

SourceHeaders == {f \in srcTree : IsPrefix(SrcSub, f.dir) /\ f.ext = "h"}

SourceLines == {ClassBody[i].line : i \in Definitions("source")}

\* C1: whichever definition of source is in effect, the clone command it
\* formats, and every clone command a run has issued, asks for the tag "v"
\* followed by the recipe's version and names the recipe's url, and nothing
\* else, as the repository.
C1_TagIsVPlusVersion ==
    /\ \A line \in SourceLines :
          LET c == GitClone(SourceCommand(line, version, url))
          IN  c.branch = <<"v">> \o version /\ c.repos = <<url>>
    /\ \A i \in 1..Len(commands) :
          LET c == GitClone(commands[i])
          IN  c.branch = <<"v">> \o version /\ c.repos = <<url>>

\* C1 witness: version "0.1.1", source has run and its command asks for the
\* tag "v0.1.1".
C1_Witness ==
    /\ fetched
    /\ version = DeclaredVersion
    /\ Len(commands) = 1
    /\ GitClone(commands[1]).branch = <<"v","0",".","1",".","1">>

BuildToolFailed ==
    \E i \in 1..Len(tools) :
        tools[i].tool \in {"meson setup", "meson compile"} /\ ~tools[i].ok

\* C2: once the build tool has exited non-zero in build(), the run is over
\* with build as the hook that raised, package() has not been invoked and
\* the package folder holds no file.
C2_BuildFailureHalts ==
    BuildToolFailed =>
        /\ pc = "aborted"
        /\ failedAt = Len(trace)
        /\ trace[failedAt] = "build"
        /\ ~Invoked("package")
        /\ pkg = {}
        /\ ~ENABLED Next

\* C2 witness: meson compile failed after a source tree with headers was
\* configured.
C2_Witness ==
    /\ BuildToolFailed
    /\ tools[Len(tools)].tool = "meson compile"
    /\ SourceHeaders # {}
    /\ pc = "aborted"

\* C3: after package() has returned, every *.h file under
\* code/logic/fossil/media is in the package folder at the same relative path
\* under include/fossil/media, whatever the install step installed, and
\* running the packaging again on that folder leaves its file set as it is.
C3_HeadersPackagedIdempotent ==
    PackageSucceeded =>
        /\ \A f \in SourceHeaders : HeaderDest(f) \in pkg
        /\ package_files(pkg, artifacts, installPlan, srcTree) = pkg

\* C3 witness: package() returned, the tree has a header in a sub-folder that
\* the install step did not install, and it is in the package folder.
C3_Witness ==
    /\ PackageSucceeded
    /\ \E f \in SourceHeaders :
          /\ f.dir # SrcSub
          /\ HeaderDest(f) \notin installPlan
          /\ HeaderDest(f) \in pkg

\* C5 as stated: package_info() leaves exactly one library name, equal to
\* the descriptor's name whatever that name is, and includedirs ["include"].
C5_LibsFollowName ==
    pc = "done" =>
        /\ Len(cpp_info.libs) = 1
        /\ cpp_info.libs[1] = name
        /\ cpp_info.includedirs = <<"include">>

\* C5 amended: package_info() leaves exactly one library name, the literal
\* "fossil_media", which is the descriptor's name when the name is the
\* declared "fossil_media" and is not derived from the name field otherwise;
\* includedirs is exactly ["include"].
C5_LibsAreFossilMedia ==
    pc = "done" =>
        /\ Len(cpp_info.libs) = 1
        /\ cpp_info.libs[1] = "fossil_media"
        /\ (name = DeclaredName => cpp_info.libs = <<name>>)
        /\ cpp_info.includedirs = <<"include">>

\* C5 witness: package_info() has run for a descriptor with another name.
C5_Witness ==
    /\ pc = "done"
    /\ name # DeclaredName
    /\ cpp_info.libs = <<"fossil_media">>

\* C6: no hook is invoked twice and no external tool is run twice; a tool
\* that failed is the last tool run and a hook that raised is the last hook
\* invoked; after it the run is over and nothing more can happen.
C6_FailureIsTerminal ==
    /\ \A h \in Hooks : Times(h) <= 1
    /\ \A i, j \in 1..Len(tools) : tools[i].tool = tools[j].tool => i = j
    /\ \A i \in 1..Len(tools) :
          ~tools[i].ok => i = Len(tools) /\ failedAt = Len(trace) /\ failedAt # 0
    /\ failedAt # 0 => failedAt = Len(trace) /\ pc = "aborted"
    /\ pc = "aborted" => ~ENABLED Next

\* C6 witness: the install step of package() failed, after a fetch.
C6_Witness ==
    /\ failedAt # 0
    /\ trace[failedAt] = "package"
    /\ fetched
    /\ ~tools[Len(tools)].ok

\* C7 as stated: every clone command a run issues carries the depth limit 1.
C7_CloneIsShallow ==
    \A i \in 1..Len(commands) : GitClone(commands[i]).depth = <<"1">>

\* C8: a step of layout() leaves folders.source = ".", which resolves to the
\* directory of the run, and a build folder that is exactly that source
\* folder followed by "builddir", for every directory and every value of the
\* shared option; it changes nothing else of the recipe or of the files.
C8_LayoutFolders ==
    [][(pc = "layout" /\ pc' # "layout") =>
          /\ folders'.source = <<".">>
          /\ source_folder' = base
          /\ build_folder' = source_folder' \o <<"builddir">>
          /\ UNCHANGED <<name, version, url, optArg, shared, base, srcTree,
                         toolchain, artifacts, installPlan, pkg, commands,
                         tools, cpp_info, fetched>>]_vars

\* C8 witness: layout() has run in /tmp with shared=True.
C8_Witness ==
    /\ pc = "generate"
    /\ trace = <<"layout">>
    /\ base = <<"tmp">>
    /\ shared = "True"
    /\ build_folder = <<"tmp", "builddir">>

\* C9: the resolved shared option is True or False, and False when the user
\* sets none; after package() has returned the package's lib folder holds
\* exactly the static library when shared is False and exactly the dynamic
\* one when it is True, and its include/fossil/media files are exactly the
\* headers of the source tree, whatever shared is.
C9_SharedSelectsLibrary ==
    /\ options.shared = {"True", "False"}
    /\ trace # <<>> => shared \in {"True", "False"}
    /\ (trace # <<>> /\ optArg = "unset") => shared = "False"
    /\ PackageSucceeded =>
          /\ {f \in pkg : f.dir = <<"lib">>} =
                {File(<<"lib">>, "libfossil_media",
                      IF shared = "False" THEN "a" ELSE "so")}
          /\ {f \in pkg : IsPrefix(DstSub, f.dir)} =
                {HeaderDest(f) : f \in SourceHeaders}

\* C9 witness: a run with shared=True has returned from package_info() with
\* the dynamic library in the package folder and a header in the source tree.
C9_Witness ==
    /\ pc = "done"
    /\ shared = "True"
    /\ File(<<"lib">>, "libfossil_media", "so") \in pkg
    /\ SourceHeaders # {}

\* C10: source is defined twice; the definition in effect is the later one
\* (line 56); a run issues one clone command when the source hook has run and
\* none before, and that command is the later definition's, which differs
\* from the earlier definition's.
C10_LaterSourceInEffect ==
    /\ Cardinality(Definitions("source")) = 2
    /\ \A i \in Definitions("source") : ClassBody[i].line <= ClassNamespace["source"]
    /\ Len(commands) = (IF fetched THEN 1 ELSE 0)
    /\ \A i \in 1..Len(commands) :
          /\ commands[i] = source_L56(version, url)
          /\ commands[i] # source_L38(version, url)

\* C10 witness: the source hook has run once and issued the later
\* definition's command.
C10_Witness ==
    /\ Times("source") = 1
    /\ commands = <<source_L56(version, url)>>

====
